---------------------------- MODULE Spec2Model ----------------------------
(***************************************************************************)
(* A model of the leaky-dam network flood model: the numerical             *)
(* (quasi-steady) notebook and the hysteresis notebook.                    *)
(*                                                                         *)
(* Real numbers are held in fixed point: the integer x stands for x / SC.  *)
(* Powers and roots round down.  Times are held in seconds, i.e. the       *)
(* solver's dimensionless time multiplied by cst_t.                        *)
(***************************************************************************)
EXTENDS Integers, Sequences, FiniteSets, TLC

(***************************************************************************)
(* Fixed-point arithmetic                                                  *)
(***************************************************************************)
\* two decimal digits
SC == 10 * 10

Max(a, b) == IF b > a THEN b ELSE a
Min(a, b) == IF b < a THEN b ELSE a

Mul(a, b) == (a * b) \div SC
Div(a, b) == (a * SC) \div b

RECURSIVE SqrtBetween(_, _, _)
SqrtBetween(x, lo, hi) ==
    IF lo >= hi THEN lo
    ELSE LET mid == (lo + hi + 1) \div 2
         IN  IF mid * mid <= x THEN SqrtBetween(x, mid, hi)
                               ELSE SqrtBetween(x, lo, mid - 1)

\* largest r with r*r <= x
ISqrt(x) == SqrtBetween(x, 0, 46340)

RECURSIVE CbrtBetween(_, _, _)
CbrtBetween(x, lo, hi) ==
    IF lo >= hi THEN lo
    ELSE LET mid == (lo + hi + 1) \div 2
         IN  IF mid * mid * mid <= x THEN CbrtBetween(x, mid, hi)
                                     ELSE CbrtBetween(x, lo, mid - 1)

\* largest r with r*r*r <= x
ICbrt(x) == CbrtBetween(x, 0, 1290)

\* np.sqrt / math.sqrt
Sqrt(a) == ISqrt(a * SC)

\* a ** (5/3) = a * a ** (2/3)
Pow53(a) == Mul(a, ICbrt(a * a * SC))

\* a ** (3/2) = a * sqrt(a)
Pow32(a) == Mul(a, Sqrt(a))

\* the largest height the fixed-point powers are evaluated at (40 units)
HMax == 40 * SC

RECURSIVE Pow35Between(_, _, _)
Pow35Between(y, lo, hi) ==
    IF lo >= hi THEN lo
    ELSE LET mid == (lo + hi) \div 2
         IN  IF Pow53(mid) >= y THEN Pow35Between(y, lo, mid)
                                ELSE Pow35Between(y, mid + 1, hi)

\* y ** (3/5): the inverse of a ** (5/3), the least a with a ** (5/3) >= y
Pow35(y) == Pow35Between(y, 0, HMax)

(***************************************************************************)
(* Inputs of the notebooks: the terrain, the widths, the dams              *)
(***************************************************************************)
Models == {"numerical", "hysteresis"}

\* the segments of the terrain table
Segs == 0 .. 1
N == Cardinality(Segs)

\* terrain['FROMNODE'] and terrain['TONODE'] of two terrains: in Chain segment
\* 0 drains into segment 1, in Apart no segment drains into another
Chain == [FROMNODE |-> [i \in Segs |-> i + 1], TONODE |-> [i \in Segs |-> i + 2]]
Apart == [FROMNODE |-> [i \in Segs |-> 2 * i + 1], TONODE |-> [i \in Segs |-> 2 * i + 2]]

\* terrain['Shape_Leng'] (metres), -terrain['Slope'], widths (metres)
Shape_Leng == [i \in Segs |-> IF i = 0 THEN 300 * SC ELSE 30 * SC]
RawSlope   == [i \in Segs |-> IF i = 0 THEN (20 * SC) \div 100 ELSE (5 * SC) \div 100]
widths     == [i \in Segs |-> IF i = 0 THEN 4 * SC ELSE 2 * SC]

\* data_df.loc[data_df.S <= 0.1, 'S'] = 0.1 (0.01 in the hysteresis notebook)
SlopeFloor(m) == IF m = "numerical" THEN (10 * SC) \div 100 ELSE (1 * SC) \div 100
data_S(m) ==
    [i \in Segs |-> IF RawSlope[i] <= SlopeFloor(m) THEN SlopeFloor(m) ELSE RawSlope[i]]

\* the dam defaults of every segment and the values of a placed dam
NoDam_h_l == 100 * SC
NoDam_h_u == 101 * SC
Dam_h_l   == (3 * SC) \div 10
Dam_h_u   == 2 * SC
Dam_k     == 0 * SC
\* the permeabilities a user may give the dams: 0 (the notebook's) and 5
Permeabilities == {Dam_k, 5 * SC}
\* lambda_val = 10 (the hysteresis notebook: cat_lambda = 10 * np.ones(N))
lambda_val == 10 * SC

(***************************************************************************)
(* Nondimensionalising                                                     *)
(***************************************************************************)
\* manning = 0.03 (0.035 in the hysteresis notebook), in thousandths
manning(m) == IF m = "numerical" THEN 30 ELSE 35
cst_w == 2 * SC
cst_h == 1 * SC
cst_S == (5 * SC) \div 100
cst_g == (98 * SC) \div 10
cst_l == 100 * SC

\* the constants and the scaled geometry of each notebook
Scales ==
    [m \in Models |->
        LET Q == (Mul(Mul(cst_w, Pow53(cst_h)), Sqrt(cst_S)) * 1000) \div manning(m)
        IN  [Q     |-> Q,
             t     |-> Div(Mul(Mul(cst_l, cst_w), cst_h), Q),
             gamma |-> Div(Mul(Mul(Sqrt(2 * cst_g), Pow32(cst_h)), cst_w), Q),
             beta  |-> Div(cst_h, Mul(cst_S, cst_l)),
             l     |-> [i \in Segs |-> Div(Shape_Leng[i], cst_l)],
             S     |-> [i \in Segs |-> Div(data_S(m)[i], cst_S)],
             w     |-> [i \in Segs |-> Div(widths[i], cst_w)]]]

VARIABLES
    model,      \* which notebook runs
    kernel,     \* whether the kernel holds a binding of the name cst_lambda
    dams,       \* the set of segments that carry a dam
    kvals,      \* the permeability of the dams
    terrain,    \* the FROMNODE and TONODE columns of the terrain
    rainvals,   \* rainvals[r][i]: the inflow of segment i in the 15 minute bin r
    pc,         \* the statement of the notebook that runs next
    seg,        \* the loop index of the running cell
    hcrit,      \* hcrit[i]: the stored critical height of segment i
    converged,  \* converged[i]: root(...).success of segment i's search
    Vapprox,    \* Vapprox[i][j]
    Qapprox,    \* Qapprox[i][j]
    qSeg,       \* the last lookup Qvals / qfunexp made: its segment,
    qJ,         \*   the grid index its volume was taken from (-1: none),
    qV,         \*   its volume
    qQ,         \*   and the discharge np.interp returned
    rT,         \* the time rainfun was last called with, and
    rOut,       \*   how it read rainvals
    fault,      \* the integration the solver gives up in ("none": neither)
    hstep,      \* the step size of the solver, in seconds
    method,     \* the method of the running solve_ivp call
    t,          \* the solver's time, in seconds
    nsteps,     \* the steps the running solve_ivp call has taken
    X,          \* the solver's state: [h |-> ..., V |-> ...]
    rbin,       \* the rows of rainvals the running call has read
    sol_y,      \* sol.y: the columns of the trajectory
    ncols,      \* the number of columns of sol.y
    status,     \* sol.status of the last solve_ivp call
    warm,       \* the warm-up's sol.status and its solver's final state
    initial,    \* the notebook's variable of that name
    qoutput,    \* the discharge table
    dam_df,     \* the fill-fraction table
    flowQ,      \* the discharges Q and the inflows q of a balance, and
    flowq,
    flowD       \*   the D = Adj.T.dot(Q) - Q + q computed from them

inputVars == <<model, dams, kvals, terrain, rainvals, kernel>>
relVars == <<seg, hcrit, converged, Vapprox, Qapprox>>
lookupVars == <<qSeg, qJ, qV, qQ>>
rainVars == <<rT, rOut>>
solverVars == <<fault, hstep, method, t, nsteps, X, rbin, sol_y, ncols, status>>
driverVars == <<warm, initial, qoutput, dam_df>>
flowVars == <<flowQ, flowq, flowD>>
vars == <<inputVars, pc, relVars, lookupVars, rainVars, solverVars, driverVars,
          flowVars>>

cst_Q == Scales[model].Q
cst_t == Scales[model].t
cst_gamma == Scales[model].gamma
cst_beta == Scales[model].beta
l == Scales[model].l
S == Scales[model].S
w == Scales[model].w
cst_lambda == [i \in Segs |-> lambda_val]

\* the hysteresis notebook binds the vector to the name cat_lambda and its
\* Vfun reads cst_lambda: the name resolves only in a kernel that holds it
\* from an earlier session
NameResolves == model = "numerical" \/ kernel = "bound"
Kernels == IF model = "hysteresis" THEN {"fresh", "bound"} ELSE {"fresh"}

\* the columns h_l and h_u of data_df: the defaults, and the dams' heights
data_df_h_l == [i \in Segs |-> IF i \in dams THEN Dam_h_l ELSE NoDam_h_l]
data_df_h_u == [i \in Segs |-> IF i \in dams THEN Dam_h_u ELSE NoDam_h_u]

h_l == [i \in Segs |-> Div(data_df_h_l[i], cst_h)]
h_u == [i \in Segs |-> Div(data_df_h_u[i], cst_h)]
k   == [i \in Segs |-> IF i \in dams THEN kvals ELSE 0]

\* the adjacency matrix: Adj[i][j] = 1 iff segment i discharges into j
Adj ==
    [i \in Segs |-> [j \in Segs |->
        IF terrain.TONODE[i] = terrain.FROMNODE[j] THEN 1 ELSE 0]]

(***************************************************************************)
(* The segment relations                                                   *)
(***************************************************************************)
Qfric(h, i) == Mul(Mul(w[i], Pow53(h)), Sqrt(S[i]))

\* the overflow term with and without the 0.6 coefficient
Overflow06(x) == (6 * 2 * Pow32(x)) \div (10 * 3)
Overflow10(x) == (2 * Pow32(x)) \div 3

DamTerms(h, i, a3) ==
    LET a1 == Div(Mul(h_l[i], h), Sqrt(h + h_l[i]))
        a2 == Mul(Mul(k[i], Sqrt(h)), Min(h - h_l[i], h_u[i] - h_l[i]))
    IN  Mul(Mul(cst_gamma, w[i]), a1 + a2 + a3)

Qdam(h, i) == DamTerms(h, i, Overflow06(Max(0, h - h_u[i])))

\* a dispatch on the critical height alone
QfunByHcrit(h, i) ==
    IF h < hcrit[i] THEN Qfric(h, i) ELSE Qdam(h, i)

Qfun(h, i) ==
    IF h < Max(hcrit[i], h_l[i]) THEN Qfric(h, i) ELSE Qdam(h, i)

\* a storage that takes the formula of the full channel at every height
VfunFull(h, i) ==
    LET reach == Div(Mul(S[i], l[i]), cst_beta)
    IN  Mul(Mul(w[i], l[i]), h - reach + Mul(cst_lambda[i] \div 2, reach))

Vfun(h, i) ==
    LET hstr == Pow35(Div(Div(Qfun(h, i), w[i]), Sqrt(S[i])))
        reach == Div(Mul(S[i], l[i]), cst_beta)
    IN  IF h < hstr + reach
        THEN Mul(Mul(w[i], l[i]), hstr)
             + Div(Mul(Mul(Mul(cst_lambda[i], cst_beta) \div 2, w[i]),
                       Mul(Max(0, h - hstr), Max(0, h - hstr))), S[i])
        ELSE Mul(Mul(w[i], l[i]),
                 h - reach + Mul(cst_lambda[i] \div 2, reach))

(***************************************************************************)
(* The height grid np.linspace(0, 20, 100)                                 *)
(***************************************************************************)
GridN == 100
GridTop == 20 * SC
Grid == 0 .. (GridN - 1)
GridH(j) == (GridTop * j) \div (GridN - 1)

(***************************************************************************)
(* The critical heights: hcrit.append(root(fun, h_u[i]).x[0])              *)
(***************************************************************************)
\* Qfric1 and Qdam1 of the hysteresis notebook's search
Qfric1(h, i) == Mul(Mul(w[i], Pow53(h)), Sqrt(S[i]))
Qdam1(h, i) == DamTerms(h, i, Overflow10(Max(0, h - h_u[i])))

\* fun(z) of the search for segment i
hcrit_fun(z, i) ==
    IF model = "numerical" THEN Qfric(z, i) - Qdam(z, i)
                           ELSE Qfric1(z, i) - Qdam1(z, i)

\* the heights the search is modelled to end at: 0, 0.05, ..., 11
RootStep == (5 * SC) \div 100
SearchTop == 11 * SC
SearchPoints == {j * RootStep : j \in 0 .. (SearchTop \div RootStep)}

\* a converged search ends at a root of fun: fun vanishes or changes sign there
IsRoot(z, i) == hcrit_fun(z, i) * hcrit_fun(z + RootStep, i) <= 0

\* a search that did not converge ends at its last iterate, whatever it is:
\* the seed or any other height
LastIterates(i) == {h_u[i], SC \div 2}

\* root(fun, h_u[i]): the OptimizeResult's success and x[0]
RootResults(i) ==
    [success : {TRUE}, x : {z \in SearchPoints : IsRoot(z, i)}]
    \cup [success : {FALSE}, x : LastIterates(i)]

\* hcrit.append(....x[0]): the list with v appended at index m
Append0(f, m, v) == [x \in 0 .. m |-> IF x = m THEN v ELSE f[x]]

\* the highest crossing: where the search from h_u[i] ends when it converges
\* from above
HighestRoot(i) ==
    LET roots == {z \in SearchPoints : IsRoot(z, i)}
    IN  CHOOSE z \in roots : \A y \in roots : y <= z

\* hcrit.append(root(fun, h_u[i]).x[0]) for a result r of the search
AppendRoot(r) ==
    /\ pc = "hcrit"
    /\ seg < N
    /\ hcrit' = Append0(hcrit, seg, r.x)
    /\ converged' = Append0(converged, seg, r.success)
    /\ seg' = seg + 1
    /\ UNCHANGED <<inputVars, flowVars, pc, Vapprox, Qapprox, lookupVars, rainVars,
                   solverVars, driverVars>>

\* the loop body with any result the search can have
RootSearch ==
    /\ pc = "hcrit"
    /\ seg < N
    /\ \E r \in RootResults(seg) : AppendRoot(r)

\* the loop body with the search converging from above
RootSearchHighest == AppendRoot([success |-> TRUE, x |-> HighestRoot(seg)])

\* hcrit = tuple(hcrit)
RootSearchDone ==
    /\ pc = "hcrit"
    /\ seg = N
    /\ pc' = IF model = "numerical" THEN "Vapprox" ELSE "built"
    /\ seg' = 0
    /\ UNCHANGED <<inputVars, flowVars, hcrit, converged, Vapprox, Qapprox, lookupVars,
                   rainVars, solverVars, driverVars>>

(***************************************************************************)
(* The tables Vapprox and Qapprox                                          *)
(***************************************************************************)
ZeroRow == [j \in Grid |-> 0]

\* a loop that stores the raw values, without the running maximum
RECURSIVE VapproxLoopRaw(_, _, _, _, _)
VapproxLoopRaw(i, lo, hi, runmax, row) ==
    IF lo = hi
    THEN [row EXCEPT ![lo] = Vfun(GridH(lo), i)]
    ELSE LET mid == (lo + hi) \div 2
             first == VapproxLoopRaw(i, lo, mid, runmax, row)
         IN  IF first[mid] = first[mid]
             THEN VapproxLoopRaw(i, mid + 1, hi, first[mid], first)
             ELSE first

\* the passes lo .. hi of the loop, entered with runmax and row:
\* for j, h in enumerate(np.linspace(0, 20, 100)):
\*     runmax = max(runmax, Vfun(h, i)); Vapprox[i, j] = runmax
\* (the passes lo .. mid are completed first, then the passes mid+1 .. hi
\* follow with the runmax and the row those leave)
RECURSIVE VapproxLoop(_, _, _, _, _)
VapproxLoop(i, lo, hi, runmax, row) ==
    IF lo = hi
    THEN [row EXCEPT ![lo] = Max(runmax, Vfun(GridH(lo), i))]
    ELSE LET mid == (lo + hi) \div 2
             first == VapproxLoop(i, lo, mid, runmax, row)
         IN  IF first[mid] = first[mid]
             THEN VapproxLoop(i, mid + 1, hi, first[mid], first)
             ELSE first

\* runmax = 0 and the row of np.zeros before the loop
VapproxRow(i) == VapproxLoop(i, 0, GridN - 1, 0, ZeroRow)

QapproxRow(i) == [j \in Grid |-> Qfun(GridH(j), i)]

BuildVapprox ==
    /\ pc = "Vapprox"
    /\ seg < N
    /\ Vapprox' = [Vapprox EXCEPT ![seg] = VapproxRow(seg)]
    /\ seg' = seg + 1
    /\ UNCHANGED <<inputVars, flowVars, pc, hcrit, converged, Qapprox, lookupVars,
                   rainVars, solverVars, driverVars>>

VapproxDone ==
    /\ pc = "Vapprox"
    /\ seg = N
    /\ pc' = "Qapprox"
    /\ seg' = 0
    /\ UNCHANGED <<inputVars, flowVars, hcrit, converged, Vapprox, Qapprox, lookupVars,
                   rainVars, solverVars, driverVars>>

BuildQapprox ==
    /\ pc = "Qapprox"
    /\ seg < N
    /\ Qapprox' = [Qapprox EXCEPT ![seg] = QapproxRow(seg)]
    /\ seg' = seg + 1
    /\ UNCHANGED <<inputVars, flowVars, pc, hcrit, converged, Vapprox, lookupVars,
                   rainVars, solverVars, driverVars>>

QapproxDone ==
    /\ pc = "Qapprox"
    /\ seg = N
    /\ pc' = "built"
    /\ seg' = 0
    /\ UNCHANGED <<inputVars, flowVars, hcrit, converged, Vapprox, Qapprox, lookupVars,
                   rainVars, solverVars, driverVars>>

(***************************************************************************)
(* np.interp(x, xp, fp)                                                    *)
(***************************************************************************)
\* a search that ends at the first of equal entries of xp
RECURSIVE BisectFirst(_, _, _, _)
BisectFirst(key, xp, imin, imax) ==
    IF imin >= imax
    THEN IF imin < GridN /\ xp[imin] = key THEN imin ELSE imin - 1
    ELSE LET imid == imin + ((imax - imin) \div 2)
         IN  IF key > xp[imid] THEN BisectFirst(key, xp, imid + 1, imax)
                               ELSE BisectFirst(key, xp, imin, imid)

\* the bisection of binary_search_with_guess: the last index j with
\* xp[j] <= key, for xp[0] <= key <= xp[n-1]
RECURSIVE Bisect(_, _, _, _)
Bisect(key, xp, imin, imax) ==
    IF imin >= imax THEN imin - 1
    ELSE LET imid == imin + ((imax - imin) \div 2)
         IN  IF key >= xp[imid] THEN Bisect(key, xp, imid + 1, imax)
                                ELSE Bisect(key, xp, imin, imid)

\* an interpolation that extends the first and the last segment of the table
InterpLinearEnds(x, xp, fp) ==
    LET j == IF x > xp[GridN - 1] THEN GridN - 2
             ELSE IF x < xp[0] THEN 0
             ELSE Min(Bisect(x, xp, 0, GridN), GridN - 2)
        dx == xp[j + 1] - xp[j]
    IN  IF dx = 0 THEN fp[j]
        ELSE fp[j] + ((fp[j + 1] - fp[j]) * (x - xp[j])) \div dx

Interp(x, xp, fp) ==
    IF x > xp[GridN - 1] THEN fp[GridN - 1]
    ELSE IF x < xp[0] THEN fp[0]
    ELSE LET j == Bisect(x, xp, 0, GridN)
         IN  IF j = GridN - 1 THEN fp[j]
             ELSE IF xp[j] = x THEN fp[j]
             ELSE fp[j] + ((fp[j + 1] - fp[j]) * (x - xp[j]))
                              \div (xp[j + 1] - xp[j])

\* Qvals(V)[i] of the right-hand side, qfunexp(V, i) of the output
qfunexp(V, i) == Interp(V, Vapprox[i], Qapprox[i])

\* the volumes looked up: below and above the table, at its nodes and
\* half-way between them
LookupMargin == 5 * SC
LookupVolumes(i, j) ==
    IF j = -1
    THEN {Vapprox[i][0] - LookupMargin, Vapprox[i][0] - 1,
          Vapprox[i][GridN - 1] + 1, Vapprox[i][GridN - 1] + LookupMargin}
         \cup {(Vapprox[i][m] + Vapprox[i][m + 1]) \div 2 : m \in 0 .. (GridN - 2)}
    ELSE {Vapprox[i][j]}

Lookup ==
    /\ pc = "built"
    /\ model = "numerical"
    /\ \E i \in Segs :
          \E j \in Grid \cup {-1} :
            \E V \in LookupVolumes(i, j) :
              /\ qSeg' = i
              /\ qJ' = j
              /\ qV' = V
              /\ qQ' = qfunexp(V, i)
    /\ pc' = "looked"
    /\ UNCHANGED <<inputVars, flowVars, relVars, rainVars, solverVars, driverVars>>

(***************************************************************************)
(* The rainfall: rain = rain[start:end]; rainvals = rain.to_numpy()        *)
(***************************************************************************)
\* the 15 minute bins between start and end
WindowBins == 3
BinMinutes == 15
BinSec == 60 * BinMinutes
\* (end - start).total_seconds()
WindowSec == WindowBins * BinSec
\* the slice rain[start:end] keeps the rows of both start and end
NRows == WindowBins + 1
Rows == 0 .. (NRows - 1)

\* i = int((minutes - (minutes % 15)) / 15) with minutes = t / 60; the
\* remainder of % has the sign of the divisor
RainIndex(ts) == (ts - (ts % BinSec)) \div BinSec

\* rainvals[i,] in compiled code: a negative index counts from the end, and
\* no index is checked against the number of rows
ReadRow(i) ==
    IF i \in Rows THEN [how |-> "row", row |-> i]
    ELSE IF i < 0 /\ (i + NRows) \in Rows THEN [how |-> "wrapped", row |-> i + NRows]
    ELSE [how |-> "unchecked", row |-> i]

rainfun(ts) == ReadRow(RainIndex(ts))

\* what a read outside the array may return
GarbageRows == {[i \in Segs |-> g] : g \in {0, 7 * SC}}

\* the values rainfun(ts) may return
RainRows(ts) ==
    LET r == rainfun(ts)
    IN  IF r.how = "unchecked" THEN GarbageRows ELSE {rainvals[r.row]}

\* the rainfall tables of the runs, in cubic metres per second
RainUnit == (15 * SC) \div 10
Dry   == [r \in Rows |-> [i \in Segs |-> 0]]
Ramp  == [r \in Rows |-> [i \in Segs |-> IF i = 1 THEN (r + 1) * RainUnit ELSE 0]]
Storm == [r \in Rows |-> [i \in Segs |-> (r + i + 1) * RainUnit]]
Steady(level) == [r \in Rows |-> [i \in Segs |-> level]]

\* the constant inflows of the steady runs: 0, 1.5 and 450
SteadyLevels == {0, RainUnit, 300 * RainUnit}

RainLookup ==
    /\ pc = "rainfun"
    /\ \E v \in RainRows(rT) :
          rOut' = [how |-> rainfun(rT).how, row |-> rainfun(rT).row, vals |-> v]
    /\ pc' = "rained"
    /\ UNCHANGED <<inputVars, flowVars, relVars, lookupVars, rT, solverVars, driverVars>>

(***************************************************************************)
(* The right-hand sides                                                    *)
(***************************************************************************)
Zero == [i \in Segs |-> 0]
ZeroState == [h |-> Zero, V |-> Zero]

RECURSIVE SumTo(_, _)
SumTo(f, n) == IF n < 0 THEN 0 ELSE f[n] + SumTo(f, n - 1)

\* a balance that leaves out the outflow of the segment itself
NetFlowNoOutflow(Q, q) ==
    [j \in Segs |-> SumTo([i \in Segs |-> Adj[i][j] * Q[i]], N - 1) + q[j]]

\* a balance that routes with Adj in place of its transpose
NetFlowRouted(Q, q) ==
    [j \in Segs |-> SumTo([i \in Segs |-> Adj[j][i] * Q[i]], N - 1) - Q[j] + q[j]]

\* Adj.T.dot(Q) - Q + q
NetFlow(Q, q) ==
    [j \in Segs |-> SumTo([i \in Segs |-> Adj[i][j] * Q[i]], N - 1) - Q[j] + q[j]]

\* D = Adj.T.dot(Q) - Q + q for the Q and the q of the state
Balance ==
    /\ pc = "derivative"
    /\ flowD' = NetFlow(flowQ, flowq)
    /\ pc' = "balanced"
    /\ UNCHANGED <<inputVars, flowQ, flowq, relVars, lookupVars, rainVars,
                   solverVars, driverVars>>

\* q[:,0] = rainfun(t*cst_t)/cst_Q, for the row rainfun returned
Scaled(row) == [i \in Segs |-> Div(row[i], cst_Q)]

Qvals(V) == [i \in Segs |-> qfunexp(V[i], i)]

\* the hysteresis notebook's fun(h, V, q)
fun(h, V, q) ==
    [h |-> [i \in Segs |-> 10 * (V[i] - Vfun(h[i], i))],
     V |-> NetFlow([i \in Segs |-> Qfun(h[i], i)], q)]

\* derivative(t, .) of either notebook, for the row rainfun(t*cst_t) returned
derivative(row, St) ==
    IF model = "numerical"
    THEN [h |-> Zero, V |-> NetFlow(Qvals(St.V), Scaled(row))]
    ELSE fun(St.h, St.V, Scaled(row))

\* a warm-up that passes the solver's time on
derivativeAtT(ts) == ts

\* the time derivative2(t, .) passes on: return derivative(0, V)
derivative2(ts) == 0

\* the hysteresis formulas take powers of h: they are defined for h >= 0, and
\* modelled up to HMax
RhsDefined(St) ==
    model = "numerical" \/ \A i \in Segs : St.h[i] >= 0 /\ St.h[i] <= HMax

(***************************************************************************)
(* solve_ivp: an explicit one-step method with an adaptive step, modelled  *)
(* as one stage per step                                                   *)
(***************************************************************************)
EvalNo == 4
WarmupSec == 60 * 60
StepSizes == {7, 9}
Faults == {"none", "warmup", "full"}
\* the steps a failing integration takes before it gives up
FailAfter == 2

t_bound == IF pc = "warmup" THEN WarmupSec ELSE WindowSec

\* t_eval = np.linspace(0, T, eval_no)
t_eval(kk) == (WindowSec * kk) \div (EvalNo - 1)

AddState(St, D, dt) ==
    LET dtd == Div(dt * SC, cst_t)
    IN  [h |-> [i \in Segs |-> St.h[i] + Mul(dtd, D.h[i])],
         V |-> [i \in Segs |-> St.V[i] + Mul(dtd, D.V[i])]]

\* the dense output between two states of a step
Blend(t0, X0, t1, X1, te) ==
    [h |-> [i \in Segs |-> X0.h[i] + ((X1.h[i] - X0.h[i]) * (te - t0)) \div (t1 - t0)],
     V |-> [i \in Segs |-> X0.V[i] + ((X1.V[i] - X0.V[i]) * (te - t0)) \div (t1 - t0)]]

\* the columns sol.y gains by a step: with t_eval, those of the evaluation
\* times the step has passed; without, the step's state (of the warm-up's
\* columns only the first and the last are kept)
Columns(t0, X0, t1, X1) ==
    IF pc = "warmup" THEN <<sol_y[1], X1>>
    ELSE LET due == Cardinality({kk \in 0 .. (EvalNo - 1) : t_eval(kk) <= t1})
         IN  sol_y \o [n \in 1 .. (due - ncols) |->
                          Blend(t0, X0, t1, X1, t_eval(ncols + n - 1))]

ColumnCount(t1) ==
    IF pc = "warmup" THEN ncols + 1
    ELSE Cardinality({kk \in 0 .. (EvalNo - 1) : t_eval(kk) <= t1})

GivesUp == fault = pc /\ nsteps = FailAfter

\* the first evaluation of the right-hand side calls Vfun, which reads a
\* name that is not bound
RaiseNameError ==
    /\ pc \in {"warmup", "full"}
    /\ ~NameResolves
    /\ pc' = "NameError"
    /\ UNCHANGED <<inputVars, flowVars, relVars, lookupVars, rainVars, solverVars,
                   driverVars>>

SolverStep ==
    /\ pc \in {"warmup", "full"}
    /\ NameResolves
    /\ t < t_bound
    /\ RhsDefined(X)
    /\ ~GivesUp
    /\ LET dt == Min(hstep, t_bound - t)
       IN  \E stage \in {t, t + (dt \div 2), t + dt} :
             LET ts == IF pc = "warmup" THEN derivative2(stage) ELSE stage
             IN  \E row \in RainRows(ts) :
                   LET Xn == AddState(X, derivative(row, X), dt)
                   IN  /\ X' = Xn
                       /\ t' = t + dt
                       /\ nsteps' = nsteps + 1
                       /\ rbin' = rbin \cup {RainIndex(ts)}
                       /\ sol_y' = Columns(t, X, t + dt, Xn)
                       /\ ncols' = ColumnCount(t + dt)
    /\ UNCHANGED <<inputVars, flowVars, pc, relVars, lookupVars, rainVars, fault, hstep,
                   method, status, driverVars>>

\* what the notebook does with sol.status: nothing
AfterSolve(st) == IF pc = "warmup" THEN "handoff" ELSE "qoutput"

SolverReturn(st) ==
    /\ status' = st
    /\ warm' = IF pc = "warmup" THEN [status |-> st, y |-> X] ELSE warm
    /\ pc' = AfterSolve(st)
    /\ UNCHANGED <<inputVars, flowVars, relVars, lookupVars, rainVars, fault, hstep,
                   method, t, nsteps, X, rbin, sol_y, ncols, initial, qoutput,
                   dam_df>>

\* the integration reaches t_bound: sol.status = 0
SolverFinish ==
    /\ pc \in {"warmup", "full"}
    /\ NameResolves
    /\ t = t_bound
    /\ SolverReturn("finished")

\* the integration step fails: sol.status = -1
SolverFail ==
    /\ pc \in {"warmup", "full"}
    /\ NameResolves
    /\ t < t_bound
    /\ ~RhsDefined(X) \/ GivesUp
    /\ SolverReturn("failed")

\* solve_ivp(f, (0, t_bound), y0, method=...)
StartSolve(y0, m) ==
    /\ method' = m
    /\ t' = 0
    /\ nsteps' = 0
    /\ X' = y0
    /\ rbin' = {}
    /\ sol_y' = IF m = "RK45" THEN <<y0>> ELSE << >>
    /\ ncols' = IF m = "RK45" THEN 1 ELSE 0

(***************************************************************************)
(* The driver                                                              *)
(***************************************************************************)
\* initial = [0]*(N); sol = solve_ivp(derivative2, (0,60*60/cst_t), initial, ...)
WarmStart ==
    /\ pc = "built"
    /\ initial' = ZeroState
    /\ StartSolve(ZeroState, "RK45")
    /\ pc' = "warmup"
    /\ UNCHANGED <<inputVars, flowVars, relVars, lookupVars, rainVars, fault, hstep,
                   status, warm, qoutput, dam_df>>

\* a hand-over that takes the first column of sol.y
FirstColumn(y) == y[1]

\* sol.y[:,-1]
LastColumn(y) == y[Len(y)]

\* initial = sol.y[:,-1]
Handoff ==
    /\ pc = "handoff"
    /\ initial' = LastColumn(sol_y)
    /\ pc' = "full_start"
    /\ UNCHANGED <<inputVars, flowVars, relVars, lookupVars, rainVars, solverVars, warm,
                   qoutput, dam_df>>

\* sol = solve_ivp(derivative, (0,T), initial, t_eval=..., method='RK23')
FullStart ==
    /\ pc = "full_start"
    /\ StartSolve(initial, "RK23")
    /\ pc' = "full"
    /\ UNCHANGED <<inputVars, flowVars, relVars, lookupVars, rainVars, fault, hstep,
                   status, driverVars>>

(***************************************************************************)
(* The outputs                                                             *)
(***************************************************************************)
\* the discharge of a column, times cst_Q; Qfun of a negative height is nan
Discharge(col) ==
    [i \in Segs |->
        IF model = "numerical" THEN Mul(qfunexp(col.V[i], i), cst_Q)
        ELSE IF col.h[i] < 0 \/ col.h[i] > HMax THEN "nan"
        ELSE Mul(Qfun(col.h[i], i), cst_Q)]

\* qoutput = pd.DataFrame(sol.y.T, index=pd.date_range(start, end, 100)):
\* the frame takes as many rows as its index has
QOutput ==
    /\ pc = "qoutput"
    /\ IF ncols # EvalNo
       THEN /\ pc' = "ValueError"
            /\ UNCHANGED qoutput
       ELSE /\ qoutput' = [kk \in 1 .. ncols |-> Discharge(sol_y[kk])]
            /\ pc' = IF model = "numerical" THEN "dam_df" ELSE "done"
    /\ UNCHANGED <<inputVars, flowVars, relVars, lookupVars, rainVars, solverVars, warm,
                   initial, dam_df>>

\* a fill fraction without the gate (x > h_l)
FillUngated(x, dam) == Min(1 * SC, Div(x - h_l[dam], h_u[dam] - h_l[dam]))

\* (x>df.h_l[dam]) * min(1, (x-df.h_l[dam])/(df.h_u[dam]-df.h_l[dam]))
FillFraction(x, dam) ==
    IF x > h_l[dam]
    THEN Min(1 * SC, Div(x - h_l[dam], h_u[dam] - h_l[dam]))
    ELSE 0

\* dam_df = pd.DataFrame(sol.y[dams].copy().T, ...) and its apply
DamDf ==
    /\ pc = "dam_df"
    /\ dam_df' = [kk \in 1 .. ncols |->
                     [d \in dams |-> FillFraction(sol_y[kk].V[d], d)]]
    /\ pc' = "done"
    /\ UNCHANGED <<inputVars, flowVars, relVars, lookupVars, rainVars, solverVars, warm,
                   initial, qoutput>>

(***************************************************************************)
(* Initial states                                                          *)
(***************************************************************************)
EmptyList == [x \in {} |-> 0]
ZeroTable == [i \in Segs |-> ZeroRow]

LookupIdle == qSeg = 0 /\ qJ = -1 /\ qV = 0 /\ qQ = 0
RainIdle == rT = 0 /\ rOut = [how |-> "none", row |-> 0, vals |-> Zero]
SolverIdle ==
    /\ method = "none"
    /\ t = 0
    /\ nsteps = 0
    /\ X = ZeroState
    /\ rbin = {}
    /\ sol_y = << >>
    /\ ncols = 0
    /\ status = "none"
DriverIdle ==
    /\ warm = [status |-> "none", y |-> ZeroState]
    /\ initial = ZeroState
    /\ qoutput = << >>
    /\ dam_df = << >>
FlowIdle == flowQ = Zero /\ flowq = Zero /\ flowD = Zero

Unbuilt ==
    /\ pc = "hcrit"
    /\ seg = 0
    /\ hcrit = EmptyList
    /\ converged = EmptyList
    /\ Vapprox = ZeroTable
    /\ Qapprox = ZeroTable

\* the construction of the relations
Init ==
    /\ model \in Models
    /\ kernel = "fresh"
    /\ dams \in SUBSET Segs
    /\ kvals = Dam_k
    /\ terrain = Chain
    /\ rainvals = Dry
    /\ Unbuilt
    /\ LookupIdle
    /\ RainIdle
    /\ fault = "none"
    /\ hstep = 0
    /\ SolverIdle
    /\ DriverIdle
    /\ FlowIdle

Next ==
    \/ RootSearch
    \/ RootSearchDone
    \/ BuildVapprox
    \/ VapproxDone
    \/ BuildQapprox
    \/ QapproxDone
    \/ Lookup

Spec == Init /\ [][Next]_vars

\* a run of either notebook
RunInit ==
    /\ model \in Models
    /\ kernel \in Kernels
    /\ dams \in {{}, {0}, {0, 1}}
    /\ kvals = Dam_k
    /\ terrain = Chain
    /\ rainvals \in {Dry, Ramp, Storm}
    /\ Unbuilt
    /\ LookupIdle
    /\ RainIdle
    /\ fault \in Faults
    /\ hstep \in StepSizes
    /\ SolverIdle
    /\ DriverIdle
    /\ FlowIdle

RunNext ==
    \/ RootSearchHighest
    \/ RootSearchDone
    \/ BuildVapprox
    \/ VapproxDone
    \/ BuildQapprox
    \/ QapproxDone
    \/ WarmStart
    \/ RaiseNameError
    \/ SolverStep
    \/ SolverFinish
    \/ SolverFail
    \/ Handoff
    \/ FullStart
    \/ QOutput
    \/ DamDf

SpecRun == RunInit /\ [][RunNext]_vars

\* a run of the numerical notebook on segments that do not drain into one
\* another, under a constant inflow; the dams and the inflows are those for
\* which the modelled step stays within the stability limit of the method,
\* as the solver's step control keeps it
SteadyInit ==
    /\ model = "numerical"
    /\ kernel = "fresh"
    /\ dams \in {{1}, {0, 1}}
    /\ kvals = Dam_k
    /\ terrain = Apart
    /\ rainvals \in {Steady(level) : level \in SteadyLevels}
    /\ Unbuilt
    /\ LookupIdle
    /\ RainIdle
    /\ fault = "none"
    /\ hstep \in StepSizes
    /\ SolverIdle
    /\ DriverIdle
    /\ FlowIdle

SteadyNext ==
    \/ RootSearchHighest
    \/ RootSearchDone
    \/ BuildVapprox
    \/ VapproxDone
    \/ BuildQapprox
    \/ QapproxDone
    \/ WarmStart
    \/ SolverStep
    \/ SolverFinish
    \/ Handoff
    \/ FullStart
    \/ QOutput
    \/ DamDf

SpecSteady == SteadyInit /\ [][SteadyNext]_vars

\* the fill-fraction cell on any trajectory
FillInputs == (-2 * SC) .. (4 * SC)

FillInit ==
    /\ model = "numerical"
    /\ kernel = "fresh"
    /\ dams \in (SUBSET Segs) \ {{}}
    /\ kvals = Dam_k
    /\ terrain = Chain
    /\ rainvals = Dry
    /\ pc = "dam_df"
    /\ seg = 0
    /\ hcrit = EmptyList
    /\ converged = EmptyList
    /\ Vapprox = ZeroTable
    /\ Qapprox = ZeroTable
    /\ LookupIdle
    /\ RainIdle
    /\ fault = "none"
    /\ hstep = 0
    /\ method = "RK23"
    /\ t = WindowSec
    /\ nsteps = 0
    /\ \E x \in FillInputs :
          /\ X = [h |-> Zero, V |-> [i \in Segs |-> x]]
          /\ sol_y = [kk \in 1 .. EvalNo |->
                        [h |-> Zero, V |-> [i \in Segs |-> x + (kk - 1) * (i + 1) * SC]]]
    /\ rbin = {}
    /\ ncols = EvalNo
    /\ status = "finished"
    /\ DriverIdle
    /\ FlowIdle

FillNext == DamDf

SpecFill == FillInit /\ [][FillNext]_vars

\* a call of rainfun at any time
RainTimes == {60 * m : m \in (-2 * BinMinutes) .. ((NRows + 2) * BinMinutes)}

RainInit ==
    /\ model \in Models
    /\ kernel = "fresh"
    /\ dams = {}
    /\ kvals = Dam_k
    /\ terrain = Chain
    /\ rainvals \in {Ramp, Storm}
    /\ pc = "rainfun"
    /\ seg = 0
    /\ hcrit = EmptyList
    /\ converged = EmptyList
    /\ Vapprox = ZeroTable
    /\ Qapprox = ZeroTable
    /\ LookupIdle
    /\ rT \in RainTimes
    /\ rOut = [how |-> "none", row |-> 0, vals |-> Zero]
    /\ fault = "none"
    /\ hstep = 0
    /\ SolverIdle
    /\ DriverIdle
    /\ FlowIdle

RainNext == RainLookup

SpecRain == RainInit /\ [][RainNext]_vars

\* the balance of any discharges and inflows on any terrain of N segments
\* between three nodes
Nodes == 1 .. 3
Terrains == [FROMNODE : [Segs -> Nodes], TONODE : [Segs -> Nodes]]
FlowDischarges == {0, (3 * SC) \div 2, 4 * SC}
FlowInflows == {0, SC \div 4}

FlowInit ==
    /\ model \in Models
    /\ kernel = "fresh"
    /\ dams = {}
    /\ kvals = Dam_k
    /\ terrain \in Terrains
    /\ rainvals = Dry
    /\ pc = "derivative"
    /\ seg = 0
    /\ hcrit = EmptyList
    /\ converged = EmptyList
    /\ Vapprox = ZeroTable
    /\ Qapprox = ZeroTable
    /\ LookupIdle
    /\ RainIdle
    /\ fault = "none"
    /\ hstep = 0
    /\ SolverIdle
    /\ DriverIdle
    /\ flowQ \in [Segs -> FlowDischarges]
    /\ flowq \in [Segs -> FlowInflows]
    /\ flowD = Zero

FlowNext == Balance

SpecFlow == FlowInit /\ [][FlowNext]_vars

\* the search for the critical heights, for dams of either permeability
CritInit ==
    /\ model \in Models
    /\ kernel = "fresh"
    /\ dams \in SUBSET Segs
    /\ kvals \in Permeabilities
    /\ terrain = Chain
    /\ rainvals = Dry
    /\ Unbuilt
    /\ LookupIdle
    /\ RainIdle
    /\ fault = "none"
    /\ hstep = 0
    /\ SolverIdle
    /\ DriverIdle
    /\ FlowIdle

CritNext ==
    \/ RootSearch
    \/ RootSearchDone

SpecCrit == CritInit /\ [][CritNext]_vars

(***************************************************************************)
(* Properties of the relations                                             *)
(***************************************************************************)
\* C1: for every segment and every pair of adjacent grid indices the
\* tabulated storage does not decrease, Vapprox[i][j] <= Vapprox[i][j+1]
C1_VapproxMonotone ==
    \A i \in Segs : \A j \in 0 .. (GridN - 2) : Vapprox[i][j] <= Vapprox[i][j + 1]

\* the row of a dammed segment is built where the raw storage decreases on
\* the grid
C1_Witness ==
    /\ pc = "Qapprox"
    /\ 0 \in dams
    /\ Vfun(GridH(2), 0) < Vfun(GridH(1), 0)
    /\ Vapprox[0][2] = Vapprox[0][1]
    /\ Vapprox[0][1] > 0

\* C5: a volume below the table is answered with the first discharge of the
\* row, a volume above it with the last, and every answer lies between two
\* entries of the row
C5_FlatExtrapolation ==
    pc = "looked" =>
        /\ qV < Vapprox[qSeg][0] => qQ = Qapprox[qSeg][0]
        /\ qV > Vapprox[qSeg][GridN - 1] => qQ = Qapprox[qSeg][GridN - 1]
        /\ \E a, b \in Grid : Qapprox[qSeg][a] <= qQ /\ qQ <= Qapprox[qSeg][b]

\* a volume above the table is looked up where the last segment of the
\* table has a slope
C5_Witness ==
    /\ pc = "looked"
    /\ qV > Vapprox[qSeg][GridN - 1]
    /\ Qapprox[qSeg][GridN - 1] > Qapprox[qSeg][GridN - 2]
    /\ Vapprox[qSeg][GridN - 1] > Vapprox[qSeg][GridN - 2]
    /\ qQ = Qapprox[qSeg][GridN - 1]

\* the last grid index that shares its tabulated volume with index j
PlateauEnd(i, j) ==
    CHOOSE m \in Grid :
        /\ Vapprox[i][m] = Vapprox[i][j]
        /\ \A n \in Grid : Vapprox[i][n] = Vapprox[i][j] => n <= m

C9_OnlyConvergedStored ==
    \A i \in DOMAIN hcrit : converged[i]

(***************************************************************************)
(* Properties of the runs                                                  *)
(***************************************************************************)
RunPhase == {"warmup", "NameError", "handoff", "full_start", "full", "qoutput",
             "ValueError", "dam_df", "done"}

\* C2: under a rainfall that is zero in every bin, the state of the solver,
\* the state handed to the full run and every column of the trajectory are
\* all-zero, in both notebooks
C2_ZeroStaysZero ==
    rainvals = Dry =>
        /\ X = ZeroState
        /\ initial = ZeroState
        /\ warm.y = ZeroState
        /\ \A kk \in DOMAIN sol_y : sol_y[kk] = ZeroState

\* the hysteresis notebook has finished both integrations of a dry run
C2_Witness ==
    /\ rainvals = Dry
    /\ model = "hysteresis"
    /\ dams # {}
    /\ pc = "done"
    /\ status = "finished"
    /\ warm.status = "finished"
    /\ ncols = EvalNo

\* C3: the warm-up starts from the all-zero state, and the full run starts
\* from the state the warm-up's integration ended in
C3_WarmupThenFull ==
    /\ pc = "warmup" => sol_y[1] = ZeroState /\ method = "RK45"
    /\ (pc = "warmup" /\ nsteps = 0) => X = ZeroState
    /\ pc = "full_start" => initial = warm.y
    /\ pc = "full" => initial = warm.y /\ method = "RK23"
    /\ (pc = "full" /\ nsteps = 0) => X = warm.y
    /\ (pc \in {"full", "qoutput", "dam_df", "done"} /\ ncols > 0) => sol_y[1] = warm.y

\* the full run is about to take its first step from a warm-up that ended
\* away from zero
C3_Witness ==
    /\ pc = "full"
    /\ nsteps = 0
    /\ warm.status = "finished"
    /\ warm.y # ZeroState
    /\ X = warm.y

\* C4: every fill fraction written lies between 0 and 1
C4_FillFractionInUnitInterval ==
    \A kk \in DOMAIN dam_df : \A d \in DOMAIN dam_df[kk] :
        dam_df[kk][d] >= 0 /\ dam_df[kk][d] <= 1 * SC

\* the fill fractions of a trajectory that starts below zero and ends above
\* the upper height of a dam are written
C4_Witness ==
    /\ pc = "done"
    /\ \E d \in dams :
          /\ sol_y[1].V[d] < 0
          /\ dam_df[1][d] = 0
          /\ sol_y[EvalNo].V[d] > h_u[d]
          /\ dam_df[EvalNo][d] = 1 * SC
          /\ \E kk \in DOMAIN dam_df : dam_df[kk][d] > 0 /\ dam_df[kk][d] < 1 * SC

\* the largest entry of a row of Qapprox
QMax(i) ==
    CHOOSE v \in {Qapprox[i][j] : j \in Grid} :
        \A u \in {Qapprox[i][j] : j \in Grid} : u <= v

\* the discharge of segment i by the table, and its constant inflow
SteadyQ(i) == qfunexp(X.V[i], i)
Steadyq(i) == Scaled(rainvals[0])[i]

\* the resolution of the steady state: two units of the last digit
Tol == 2
Near(i) == SteadyQ(i) - Steadyq(i) <= Tol /\ Steadyq(i) - SteadyQ(i) <= Tol

\* C7: under a constant inflow q on unconnected segments, a segment whose
\* row of Qapprox reaches q has its discharge within the resolution of q
\* from the end of the warm-up on; a segment whose row stays below q never
\* has a discharge as large as q, and its volume keeps growing
C7_SteadyWithinTable ==
    \A i \in Segs :
        /\ (pc \in {"full", "qoutput", "dam_df", "done"} /\ Steadyq(i) <= QMax(i))
              => Near(i)
        /\ (pc \in RunPhase /\ Steadyq(i) > QMax(i))
              => /\ SteadyQ(i) < Steadyq(i)
                 /\ derivative(rainvals[0], X).V[i] > 0

\* a finished run with one segment at its steady state and the other
\* under an inflow above its row
C7_Witness ==
    /\ pc = "done"
    /\ \E i, j \in Segs :
          /\ Steadyq(i) > 0
          /\ Steadyq(i) <= QMax(i)
          /\ Near(i)
          /\ Steadyq(j) > QMax(j)
          /\ X.V[j] > Vapprox[j][GridN - 1]

\* C7 as stated: from the end of the warm-up on, the discharge of every
\* segment under a constant inflow q is q, whatever q
C7_EverySteadyRunReachesq ==
    pc \in {"full", "qoutput", "dam_df", "done"} => \A i \in Segs : Near(i)

\* C8: a lookup outside the window never reads a row by a wrapped or an
\* unchecked index
C8_NoWrappedOrUncheckedRead ==
    (pc = "rained" /\ (rT < 0 \/ rT >= WindowSec)) =>
        rOut.how \notin {"wrapped", "unchecked"}

\* C10: after an integration that ended unsuccessfully the run goes no
\* further: the warm-up's state is not handed on and no table is written
C10_FailureStopsTheRun ==
    /\ warm.status = "failed" => pc = "handoff"
    /\ status = "failed" => qoutput = << >> /\ dam_df = << >>

(***************************************************************************)
(* Properties of the critical heights                                      *)
(***************************************************************************)
\* the difference of the two formulas Qfun dispatches between
DispatchGap(z, i) == Qfric(z, i) - Qdam(z, i)

\* C11: at the critical height of every segment whose search converged, the
\* friction formula and the dam formula Qfun dispatches between agree to
\* within the resolution of the search, in both notebooks: their difference
\* vanishes or changes sign within one step of the search
C11_ContinuousAtHcrit ==
    \A i \in DOMAIN hcrit :
        converged[i] =>
            DispatchGap(hcrit[i], i) * DispatchGap(hcrit[i] + RootStep, i) <= 0

\* C14: for every segment without a dam and every height of the grid the
\* dispatch takes the friction formula, whatever the search stored as the
\* segment's critical height
C14_UndammedIsFriction ==
    \A i \in DOMAIN hcrit :
        i \notin dams =>
            \A j \in Grid : Qfun(GridH(j), i) = Qfric(GridH(j), i)

\* the search of a segment without a dam has stored a critical height
\* inside the grid, above which the dam formula differs from the friction
\* formula
C14_Witness ==
    /\ pc = "hcrit"
    /\ seg = N
    /\ \E i \in Segs \ dams :
          /\ hcrit[i] > 0
          /\ hcrit[i] < GridTop
          /\ Qdam(GridTop, i) # Qfric(GridTop, i)
          /\ Qfun(GridTop, i) = Qfric(GridTop, i)

(***************************************************************************)
(* Properties of the integrations                                          *)
(***************************************************************************)
\* the methods of solve_ivp that are implicit
ImplicitMethods == {"Radau", "BDF", "LSODA"}

\* C12: the full run of the numerical notebook integrates with RK23, and
\* the full run of the hysteresis notebook integrates with an implicit
\* method
C12_MethodByVariant ==
    pc = "full" =>
        /\ model = "numerical" => method = "RK23"
        /\ model = "hysteresis" => method \in ImplicitMethods

\* C13: every row of the rainfall the warm-up has read is row 0; a row
\* other than 0 has been read only by the full run
C13_WarmupReadsBinZero ==
    /\ pc \in {"warmup", "handoff", "full_start"} => rbin \subseteq {0}
    /\ (\E b \in rbin : b # 0) =>
          (method = "RK23" /\ pc \in {"full", "qoutput", "ValueError", "dam_df", "done"})

\* a warm-up under a rainfall that differs from bin to bin has integrated
\* past the end of bin 0 to its end, and has read row 0 only
C13_Witness ==
    /\ pc = "handoff"
    /\ warm.status = "finished"
    /\ t = WarmupSec
    /\ t > BinSec
    /\ rainvals[1] # rainvals[0]
    /\ rbin = {0}

(***************************************************************************)
(* Properties of the balance                                               *)
(***************************************************************************)
\* the number of segments that segment i discharges into
OutDegree(i) == Cardinality({j \in Segs : Adj[i][j] = 1})

\* the sum of the entries of a vector over the segments
Total(f) == SumTo(f, N - 1)

\* C15: on a terrain in which every segment discharges into at most one
\* segment, the entries of D = Adj.T.dot(Q) - Q + q add up to the sum of the
\* inflows q minus the discharges Q of the segments that discharge into no
\* segment
C15_BalanceConservesWater ==
    (pc = "balanced" /\ \A i \in Segs : OutDegree(i) <= 1) =>
        Total(flowD) = Total(flowq)
                       - Total([i \in Segs |-> IF OutDegree(i) = 0 THEN flowQ[i] ELSE 0])

\* the balance of a terrain in which segment 0 discharges into segment 1
\* and segment 1 into none, under distinct positive discharges and an
\* inflow
C15_Witness ==
    /\ pc = "balanced"
    /\ OutDegree(0) = 1
    /\ Adj[0][1] = 1
    /\ OutDegree(1) = 0
    /\ flowQ[0] > flowQ[1]
    /\ flowQ[1] > 0
    /\ flowq[0] > 0
    /\ flowD[1] = flowQ[0] - flowQ[1] + flowq[1]
    /\ Total(flowD) = Total(flowq) - flowQ[1]

=============================================================================
